---- MODULE Spec2Model ----
(***************************************************************************)
(* Model of src/polybot.py: the order-book monitor of a prediction-market  *)
(* venue.  OrderbookMonitor discovers the markets by cursor pagination     *)
(* (initialize_markets), then polls every active, open market for ever     *)
(* (monitor_markets / check_market), diffing the fetched order book and    *)
(* spread against the last ones seen (calculate_price_changes,             *)
(* calculate_spread_change) and sending an alert on a large move           *)
(* (send_alert).                                                           *)
(*                                                                         *)
(* Python values are modelled as follows.                                  *)
(*   str            a sequence of one-character strings                    *)
(*   Decimal        [sign, coef, places]: sign * coef / 10^places          *)
(*   Optional[x]    <<>> for None, <<x>> for a value                       *)
(*   dict (JSON)    a TLA+ function from its keys                          *)
(*   a call's result  [exc |-> "none", val |-> v], or [exc |-> e] when the *)
(*                  call raises e                                          *)
(* A quotient of Decimals is kept as an exact fraction in lowest terms.    *)
(* decimal's default context rounds a quotient to 28 significant digits;   *)
(* TLC's integers have 32 bits, and on the prices and spreads drawn here   *)
(* (at most 5 digits) the rounding error is below 10^-26 and moves no      *)
(* comparison with a threshold.                                            *)
(***************************************************************************)
EXTENDS Integers, Sequences, FiniteSets, TLC

\* ------------------------------------------------------------------ values

None == <<>>

Some(x) == <<x>>

Ok(v) == [exc |-> "none", val |-> v]

Raise(e) == [exc |-> e]

Abs(n) == IF n < 0 THEN -n ELSE n

RECURSIVE Gcd(_, _)
Gcd(a, b) == IF b = 0 THEN a ELSE Gcd(b, a % b)

RECURSIVE Pow10(_)
Pow10(n) == IF n = 0 THEN 1 ELSE 10 * Pow10(n - 1)

\* The fraction n/d (d # 0) in lowest terms with a positive denominator.
Frac(n, d) ==
    LET g == Gcd(Abs(n), Abs(d))
        s == IF d < 0 THEN -1 ELSE 1
    IN  [num |-> (s * n) \div g, den |-> (s * d) \div g]

\* ---------------------------------------------------------------- Decimal

Digits == <<"0", "1", "2", "3", "4", "5", "6", "7", "8", "9">>

IsDigit(c) == \E i \in 1..10 : Digits[i] = c

DigitVal(c) == (CHOOSE i \in 1..10 : Digits[i] = c) - 1

RECURSIVE DigitsVal(_)
DigitsVal(s) ==
    IF s = <<>> THEN 0
    ELSE 10 * DigitsVal(SubSeq(s, 1, Len(s) - 1)) + DigitVal(s[Len(s)])

\* The number read from a sign and the text after it: digits with at most
\* one ".", at least one digit; any other text raises InvalidOperation.
ParseNumber(sign, body, ds, dots) ==
    IF \/ Cardinality(dots) > 1
       \/ ds = <<>>
       \/ Len(ds) + Cardinality(dots) # Len(body)
    THEN Raise("InvalidOperation")
    ELSE Ok([sign   |-> sign,
             coef   |-> DigitsVal(ds),
             places |-> IF dots = {} THEN 0
                        ELSE Len(body) - (CHOOSE i \in dots : TRUE)])

ParseSigned(sign, body) ==
    ParseNumber(sign, body, SelectSeq(body, IsDigit),
                {i \in 1..Len(body) : body[i] = "."})

\* Decimal(s) for a str s
DecimalOf(s) ==
    IF s # <<>> /\ s[1] = "-" THEN ParseSigned(-1, Tail(s)) ELSE ParseSigned(1, s)

\* Decimal('0')
DecimalZero == [sign |-> 1, coef |-> 0, places |-> 0]

\* x's value in units of 10^-p, for p >= x.places.
Scaled(x, p) == x.sign * x.coef * Pow10(p - x.places)

MaxPlaces(x, y) == IF x.places >= y.places THEN x.places ELSE y.places

\* x != 0 and bool(x) of a Decimal: numeric, whatever the exponent.
DecimalNonZero(x) == x.coef # 0

\* (current - previous) / previous in units of 10^-p; Decimal division by
\* zero raises (DivisionByZero, or InvalidOperation for 0 / 0).
Quotient(previous, current) ==
    IF previous = 0 THEN Raise("DivisionByZero")
    ELSE Ok(Frac((current - previous) * 100, previous))

\* (current - previous) / previous * 100
PercentChange(previous, current) ==
    Quotient(Scaled(previous, MaxPlaces(previous, current)),
             Scaled(current, MaxPlaces(previous, current)))

\* Mutant of AbsAtLeast: a strict comparison.
AbsGreater(change, threshold) == Abs(change.num) > threshold * change.den

\* abs(change) >= threshold
AbsAtLeast(change, threshold) == Abs(change.num) >= threshold * change.den

\* ------------------------------------------------------- change detection

PRICE_THRESHOLD == 15

SPREAD_THRESHOLD == 50

\* Decimal(book[side][0]["price"]) if book[side] else Decimal('0')
BestPrice(book_, side) ==
    IF side \notin DOMAIN book_ THEN Raise("KeyError")
    ELSE IF book_[side] = <<>> THEN Ok(DecimalZero)
    ELSE IF "price" \notin DOMAIN book_[side][1] THEN Raise("KeyError")
    ELSE DecimalOf(book_[side][1]["price"])

\* The change, if any, that a computed percentage makes: Ok(None) when it is
\* below the threshold, Ok(Some(change)) when it is reported.
Reported(change_percent, threshold) ==
    IF change_percent.exc # "none" THEN change_percent
    ELSE IF AbsAtLeast(change_percent.val, threshold) THEN Ok(Some(change_percent.val))
    ELSE Ok(None)

\* Mutant of BestChange: no `if prev_best != 0` before the division.
BestChangeUnguarded(prev_best, curr_best) ==
    IF prev_best.exc # "none" THEN prev_best
    ELSE IF curr_best.exc # "none" THEN curr_best
    ELSE Reported(PercentChange(prev_best.val, curr_best.val), PRICE_THRESHOLD)

\* One turn of the loop over the sides, from the two best prices.
BestChange(prev_best, curr_best) ==
    IF prev_best.exc # "none" THEN prev_best
    ELSE IF curr_best.exc # "none" THEN curr_best
    ELSE IF DecimalNonZero(prev_best.val)
    THEN Reported(PercentChange(prev_best.val, curr_best.val), PRICE_THRESHOLD)
    ELSE Ok(None)

\* Mutant of SideChange: an empty current side is passed over, as a side
\* without a best price, instead of being priced at 0.
SideChangeSkipsEmpty(previous_book, current_book, side) ==
    IF side \in DOMAIN current_book /\ current_book[side] = <<>>
    THEN Ok(None)
    ELSE BestChange(BestPrice(previous_book, side), BestPrice(current_book, side))

SideChange(previous_book, current_book, side) ==
    BestChange(BestPrice(previous_book, side), BestPrice(current_book, side))

\* The dict `changes` after the loop over ["bids", "asks"], or the exception
\* the first failing turn raised.
Changes(bids, asks) ==
    IF bids.exc # "none" THEN bids
    ELSE IF asks.exc # "none" THEN asks
    ELSE Ok([side \in {s \in {"bids"} : bids.val # None}
                      \cup {s \in {"asks"} : asks.val # None}
              |-> IF side = "bids" THEN bids.val[1] ELSE asks.val[1]])

\* Mutant of calculate_price_changes: without a previous book every quoted
\* side of the current book is reported as new, at +100.
PriceChangesReportNew(previous_book, current_book) ==
    IF previous_book = None
    THEN Ok([side \in {s \in {"bids", "asks"} :
                         s \in DOMAIN current_book /\ current_book[s] # <<>>}
              |-> [num |-> 100, den |-> 1]])
    ELSE IF DOMAIN previous_book[1] = {}
    THEN Ok(<<>>)
    ELSE Changes(SideChange(previous_book[1], current_book, "bids"),
                 SideChange(previous_book[1], current_book, "asks"))

\* previous_book is Optional; `if previous_book` is false for None and for {}.
calculate_price_changes(previous_book, current_book) ==
    IF previous_book = None \/ DOMAIN previous_book[1] = {}
    THEN Ok(<<>>)
    ELSE Changes(SideChange(previous_book[1], current_book, "bids"),
                 SideChange(previous_book[1], current_book, "asks"))

\* Mutant of calculate_spread_change: the change is taken relative to the
\* current spread.
SpreadChangeOfCurrent(previous_spread, current_spread) ==
    IF previous_spread # None /\ DecimalNonZero(previous_spread[1])
    THEN Reported(PercentChange(current_spread, previous_spread[1]), SPREAD_THRESHOLD)
    ELSE Ok(None)

\* previous_spread is Optional; `if previous_spread` is false for None and 0.
calculate_spread_change(previous_spread, current_spread) ==
    IF previous_spread # None /\ DecimalNonZero(previous_spread[1])
    THEN Reported(PercentChange(previous_spread[1], current_spread), SPREAD_THRESHOLD)
    ELSE Ok(None)

\* ------------------------------------------------------------ the venue
\* What the HTTP API can answer: the inputs of the model.

NumMarkets == 2

MaxPages == 2

MaxPageLen == 1

PollLevels == 2

MaxExtra == 1

RECURSIVE NatStr(_)
NatStr(n) == IF n < 10 THEN <<Digits[n + 1]>>
             ELSE Append(NatStr(n \div 10), Digits[(n % 10) + 1])

RECURSIVE Zeros(_)
Zeros(k) == IF k <= 0 THEN <<>> ELSE <<"0">> \o Zeros(k - 1)

\* The text of coef / 10^places with exactly `places` decimals: the way the
\* venue writes a price or a spread.
FormatDecimal(coef, places) ==
    LET ds  == NatStr(coef)
        all == Zeros(places + 1 - Len(ds)) \o ds
        n   == Len(all) - places
    IN  IF places = 0 THEN all
        ELSE SubSeq(all, 1, n) \o <<".">> \o SubSeq(all, n + 1, Len(all))

ConditionIds == 1..NumMarkets

\* The token ids of market c: its two outcomes.
TokenIds(c) == <<10 * c + 1, 10 * c + 2>>

Tokens(c) == [i \in 1..2 |-> [token_id |-> TokenIds(c)[i]]]

\* One element of a /markets page's "data".
MarketData ==
    [condition_id : ConditionIds, active : BOOLEAN, closed : BOOLEAN,
     tokens : {<<>>}]
    \cup {[condition_id |-> c, active |-> a, closed |-> cl, tokens |-> Tokens(c)] :
            c \in ConditionIds, a \in BOOLEAN, cl \in BOOLEAN}

SENTINEL == "LTE="

Cursors == {"", "MTAw", SENTINEL}

RECURSIVE SeqsUpTo(_, _)
SeqsUpTo(S, n) ==
    IF n = 0 THEN {<<>>}
    ELSE LET shorter == SeqsUpTo(S, n - 1)
         IN  shorter \cup {Append(q, x) : q \in {r \in shorter : Len(r) = n - 1}, x \in S}

Pages == [data : SeqsUpTo(MarketData, MaxPageLen), next_cursor : Cursors]

Entry(price) == [price |-> price, size |-> <<"1">>]

\* A side with best price `price` and k worse entries behind it.
Side(price, filler, k) == <<Entry(price)>> \o [i \in 1..k |-> Entry(filler)]

\* The payloads /book answers while polling: both sides quoted at level k
\* (bids 0.20, 0.22, ..., asks 0.30, 0.32, ...), a book with no bids, and a
\* JSON object that is no order book (the
\* venue's {"error": ...} body, which response.json() returns as it is).
PollBid(k) == <<Entry(FormatDecimal(20 + 2 * k, 2))>>

PollAsk(k) == <<Entry(FormatDecimal(30 + 2 * k, 2))>>

ErrorBody == [error |-> <<"x">>]

PollBooks ==
    {[bids |-> PollBid(k), asks |-> PollAsk(k)] : k \in 0..PollLevels}
    \cup {[bids |-> <<>>, asks |-> PollAsk(0)]}
    \cup {ErrorBody}

\* The "spread" texts /spread answers while polling: 0.04, 0.05, ..., 0.00,
\* and "-", which is no number.
PollSpreads ==
    {FormatDecimal(4 + k, 2) : k \in 0..PollLevels}
    \cup {FormatDecimal(0, 2), <<"-">>}

\* ------------------------------------------------------------- the monitor

VARIABLES
    pc,                \* where the monitor task is (see the actions)
    next_cursor,       \* initialize_markets: the cursor of the next request
    requested,         \* initialize_markets: the cursors requested so far
    served,            \* initialize_markets: the next_cursor of each page received
    seen,              \* initialize_markets: the last market received under each id
    markets,           \* self.markets, in insertion order
    it,                \* monitor_markets: position of the for loop in markets
    book,              \* check_market: Optional, the fetched order book
    spread,            \* check_market: Optional, the fetched spread
    price_changes,     \* check_market: Optional, calculate_price_changes' result
    spread_change,     \* check_market: Optional, calculate_spread_change's result
    previous_books,    \* self.previous_books
    previous_spreads,  \* self.previous_spreads
    event,             \* the last thing the monitor did
    checked,           \* the markets fetched and diffed in the current pass
    failed,            \* Optional, the market whose check raised in this pass
    failed_prev,       \* Optional, the market whose check raised last pass
    since_alert        \* Optional, per token: its state at its last alert
                       \* (see Anchored); kept only in a run that asks for it

vars == <<pc, next_cursor, requested, served, seen, markets, it, book, spread,
          price_changes, spread_change, previous_books, previous_spreads,
          event, checked, failed, failed_prev, since_alert>>

locals == <<book, spread, price_changes, spread_change>>

discovery == <<next_cursor, requested, served, seen, markets>>

history == <<checked, failed, failed_prev, since_alert>>

\* d.get(k) of a dict d
Get(d, k) == IF k \in DOMAIN d THEN Some(d[k]) ELSE None

\* d[k] = v of a dict d
Put(d, k, v) == [x \in DOMAIN d \cup {k} |-> IF x = k THEN v ELSE d[x]]

\* Mutant of PutMarket: a condition_id already held keeps its first market.
PutMarketKeepFirst(ms, market) ==
    IF \E i \in 1..Len(ms) : ms[i].condition_id = market.condition_id
    THEN ms
    ELSE Append(ms, market)

\* self.markets[market.condition_id] = market: a dict keeps the place of a
\* key it already holds.
PutMarket(ms, market) ==
    IF \E i \in 1..Len(ms) : ms[i].condition_id = market.condition_id
    THEN [i \in 1..Len(ms) |->
            IF ms[i].condition_id = market.condition_id THEN market ELSE ms[i]]
    ELSE Append(ms, market)

RECURSIVE PutMarkets(_, _)
PutMarkets(ms, data) ==
    IF data = <<>> THEN ms
    ELSE PutMarkets(PutMarket(ms, Head(data)), Tail(data))

\* Mutant of Polled: the closed flag is not looked at.
PolledWhenActive(market) == market.active

\* market.active and not market.closed
Polled(market) == market.active /\ ~market.closed

Init ==
    /\ pc = "discover"
    /\ next_cursor = ""
    /\ requested = <<>>
    /\ served = <<>>
    /\ seen = <<>>
    /\ markets = <<>>
    /\ it = 0
    /\ book = None
    /\ spread = None
    /\ price_changes = None
    /\ spread_change = None
    /\ previous_books = <<>>
    /\ previous_spreads = <<>>
    /\ event = [op |-> "construct"]
    /\ checked = {}
    /\ failed = None
    /\ failed_prev = None
    /\ since_alert = None

\* The last market of `data` under each condition_id in it, and else what
\* was last seen before.
LastSeen(before, data) ==
    [c \in DOMAIN before \cup {data[j].condition_id : j \in 1..Len(data)} |->
        IF \E j \in 1..Len(data) : data[j].condition_id = c
        THEN data[CHOOSE j \in 1..Len(data) :
                    /\ data[j].condition_id = c
                    /\ \A k \in (j + 1)..Len(data) : data[k].condition_id # c]
        ELSE before[c]]

\* initialize_markets, one turn of its loop: the request succeeds.
ListMarkets ==
    /\ pc = "discover"
    /\ Len(requested) < MaxPages
    /\ \E page \in Pages :
         /\ requested' = Append(requested, next_cursor)
         /\ served' = Append(served, page.next_cursor)
         /\ seen' = LastSeen(seen, page.data)
         /\ markets' = PutMarkets(markets, page.data)
         /\ next_cursor' = page.next_cursor
         /\ pc' = IF page.next_cursor = SENTINEL THEN "initialized" ELSE "discover"
         /\ event' = [op |-> "get_markets", cursor |-> next_cursor, outcome |-> "ok",
                      replaced |-> \E i \in 1..Len(markets) : \E j \in 1..Len(page.data) :
                                     /\ markets[i].condition_id = page.data[j].condition_id
                                     /\ markets[i] # page.data[j]]
    /\ UNCHANGED <<it, locals, previous_books, previous_spreads, history>>

\* initialize_markets: get_markets raises; nothing catches it before main's
\* finally, and asyncio.run ends the process.
ListMarketsFails ==
    /\ pc = "discover"
    /\ Len(requested) < MaxPages
    /\ requested' = Append(requested, next_cursor)
    /\ pc' = "crashed"
    /\ event' = [op |-> "get_markets", cursor |-> next_cursor, outcome |-> "raise",
                 replaced |-> FALSE]
    /\ UNCHANGED <<next_cursor, served, seen, markets, it, locals, previous_books,
                   previous_spreads, history>>

\* initialize_markets: _get_auth_headers raises while get_markets builds the
\* arguments of session.get, so no request is sent; nothing catches the
\* exception before main's finally, and the process ends.
ListMarketsUnsigned ==
    /\ pc = "discover"
    /\ Len(requested) < MaxPages
    /\ pc' = "crashed"
    /\ event' = [op |-> "get_markets", cursor |-> next_cursor,
                 outcome |-> "SigningError", replaced |-> FALSE]
    /\ UNCHANGED <<discovery, it, locals, previous_books, previous_spreads, history>>

\* initialize_markets has returned; monitor_markets enters its while loop.
StartMonitoring ==
    /\ pc = "initialized"
    /\ pc' = "loop"
    /\ it' = 1
    /\ next_cursor' = ""
    /\ requested' = <<>>
    /\ served' = <<>>
    /\ seen' = <<>>
    /\ event' = [op |-> "start"]
    /\ UNCHANGED <<markets, locals, previous_books, previous_spreads, history>>

\* The market the for loop is at, and the token check_market is called with:
\* market.tokens[0]["token_id"].
Current == markets[it]

TokenId == Current.tokens[1].token_id

NoLocals ==
    /\ book' = None
    /\ spread' = None
    /\ price_changes' = None
    /\ spread_change' = None

\* Mutant of PassRaises: the handler logs and does not sleep; the while loop
\* starts the next pass at once.
PassRaisesNoSleep(op, exc, sp) ==
    /\ pc' = "loop"
    /\ it' = 1
    /\ NoLocals
    /\ checked' = {}
    /\ failed_prev' = Some(Current.condition_id)
    /\ failed' = None
    /\ event' = [op |-> op, condition_id |-> Current.condition_id, outcome |-> exc,
                 book |-> book, spread |-> sp]
    /\ UNCHANGED <<discovery, previous_books, previous_spreads, since_alert>>

\* An exception reaches `except Exception` of monitor_markets: it is logged
\* and the task sleeps; the rest of the pass is not run.
PassRaises(op, exc, sp) ==
    /\ pc' = "error_sleep"
    /\ NoLocals
    /\ failed' = Some(Current.condition_id)
    /\ event' = [op |-> op, condition_id |-> Current.condition_id, outcome |-> exc,
                 book |-> book, spread |-> sp]
    /\ UNCHANGED <<discovery, it, previous_books, previous_spreads, checked,
                   failed_prev, since_alert>>

\* The for loop passes a market that is not active or is closed.
SkipMarket ==
    /\ pc = "loop"
    /\ it <= Len(markets)
    /\ ~Polled(Current)
    /\ it' = it + 1
    /\ event' = [op |-> "skip", condition_id |-> Current.condition_id]
    /\ UNCHANGED <<pc, discovery, locals, previous_books, previous_spreads, history>>

\* The for loop reaches an active, open market and calls check_market, which
\* awaits get_order_book.
EnterCheck ==
    /\ pc = "loop"
    /\ it <= Len(markets)
    /\ Polled(Current)
    /\ Current.tokens # <<>>
    /\ pc' = "book"
    /\ event' = [op |-> "check_market", condition_id |-> Current.condition_id,
                 token_id |-> TokenId]
    /\ UNCHANGED <<discovery, it, locals, previous_books, previous_spreads, history>>

\* market.tokens[0] of a market without tokens raises IndexError.
MissingToken ==
    /\ pc = "loop"
    /\ it <= Len(markets)
    /\ Polled(Current)
    /\ Current.tokens = <<>>
    /\ PassRaises("tokens[0]", "IndexError", None)

\* get_order_book returns the JSON body, whatever it holds.
GetOrderBook ==
    /\ pc = "book"
    /\ \E payload \in PollBooks : book' = Some(payload)
    /\ pc' = "spread"
    /\ event' = [op |-> "get_order_book", condition_id |-> Current.condition_id,
                 token_id |-> TokenId, outcome |-> "ok"]
    /\ UNCHANGED <<discovery, it, spread, price_changes, spread_change,
                   previous_books, previous_spreads, history>>

\* get_order_book raises: the request fails or the body is no JSON.
GetOrderBookFails ==
    /\ pc = "book"
    /\ PassRaises("get_order_book", "ClientError", None)

\* _get_auth_headers raises while get_order_book builds the arguments of
\* session.get: no request is sent, and the exception reaches the handler
\* of the pass like any other.
GetOrderBookUnsigned ==
    /\ pc = "book"
    /\ PassRaises("get_order_book", "SigningError", None)

\* The same in get_spread.
GetSpreadUnsigned ==
    /\ pc = "spread"
    /\ PassRaises("get_spread", "SigningError", None)

\* get_spread raises: the request fails, or the body has no "spread".
GetSpreadFails ==
    /\ pc = "spread"
    /\ PassRaises("get_spread", "ClientError", None)

\* Mutant of Store: only previous_books is assigned.
StoreBookOnly(b, sp) ==
    /\ previous_books' = Put(previous_books, TokenId, b)
    /\ previous_spreads' = previous_spreads
    /\ it' = it + 1
    /\ pc' = "loop"
    /\ NoLocals

\* Mutant of Store: the cache is overwritten only by a check that has sent
\* an alert (or is the token's first).
StoreOnAlert(b, sp) ==
    /\ IF pc = "alert" \/ TokenId \notin DOMAIN previous_books
       THEN /\ previous_books' = Put(previous_books, TokenId, b)
            /\ previous_spreads' = Put(previous_spreads, TokenId, sp)
       ELSE UNCHANGED <<previous_books, previous_spreads>>
    /\ it' = it + 1
    /\ pc' = "loop"
    /\ NoLocals

\* self.previous_books[token_id] = book; self.previous_spreads[token_id] =
\* spread; check_market returns and the for loop moves on.
Store(b, sp) ==
    /\ previous_books' = Put(previous_books, TokenId, b)
    /\ previous_spreads' = Put(previous_spreads, TokenId, sp)
    /\ it' = it + 1
    /\ pc' = "loop"
    /\ NoLocals

MaxQuiet == 2

\* The history of a token after a check of it has fetched (b, sp) and run to
\* its end: the state fetched by its last check that sent an alert (or by its
\* first check, while none has), whether that check sent an alert, how many
\* checks of the token have completed since (counted up to MaxQuiet), and the
\* state fetched by the last of them.
Anchored(log, token_id, b, sp, alerting) ==
    IF alerting \/ token_id \notin DOMAIN log
    THEN Put(log, token_id, [book |-> b, spread |-> sp, alerted |-> alerting,
                             polls |-> 0, last |-> [book |-> b, spread |-> sp]])
    ELSE Put(log, token_id,
             [log[token_id] EXCEPT
                !.polls = IF @ < MaxQuiet THEN @ + 1 ELSE MaxQuiet,
                !.last = [book |-> b, spread |-> sp]])

Record(b, sp, alerting) ==
    since_alert' = IF since_alert = None THEN None
                   ELSE Some(Anchored(since_alert[1], TokenId, b, sp, alerting))

\* Mutant of Significant: `if price_changes`.
SignificantPrices(changes, change) == DOMAIN changes # {}

\* `if price_changes or spread_change`
Significant(changes, change) ==
    DOMAIN changes # {} \/ (change # None /\ change[1].num # 0)

\* What check_market has computed when both calculations have returned.
Decide(sp, changes, change) ==
    IF change.exc # "none"
    THEN [kind |-> "raise", op |-> "calculate_spread_change", exc |-> change.exc,
          spread |-> Some(sp)]
    ELSE [kind |-> IF Significant(changes, change.val) THEN "alert" ELSE "quiet",
          spread |-> sp, price_changes |-> changes, spread_change |-> change.val]

DiffSpreads(sp, changes) ==
    IF changes.exc # "none"
    THEN [kind |-> "raise", op |-> "calculate_price_changes", exc |-> changes.exc,
          spread |-> Some(sp)]
    ELSE Decide(sp, changes.val,
                calculate_spread_change(Get(previous_spreads, TokenId), sp))

DiffBooks(sp) ==
    IF sp.exc # "none"
    THEN [kind |-> "raise", op |-> "get_spread", exc |-> sp.exc, spread |-> None]
    ELSE DiffSpreads(sp.val,
                     calculate_price_changes(Get(previous_books, TokenId), book[1]))

\* What check_market does once get_spread has read `text`: Decimal(text) may
\* raise, calculate_price_changes raises on a book, the fetched or the cached
\* one, that is no order book, and else the two results decide whether
\* send_alert is called.
Diff(text) == DiffBooks(DecimalOf(text))

\* check_market from get_spread's answer to its next await or its end.
Checked(d) ==
    IF d.kind = "raise"
    THEN PassRaises(d.op, d.exc, d.spread)
    ELSE /\ event' = [op |-> "get_spread", condition_id |-> Current.condition_id,
                      token_id |-> TokenId, outcome |-> "ok",
                      alert |-> (d.kind = "alert"), book |-> book,
                      spread |-> Some(d.spread),
                      first |-> (TokenId \notin DOMAIN previous_books)]
         /\ checked' = checked \cup {Current.condition_id}
         /\ UNCHANGED <<discovery, failed, failed_prev>>
         /\ IF d.kind = "quiet"
            THEN Store(book[1], d.spread) /\ Record(book[1], d.spread, FALSE)
            ELSE /\ pc' = "alert"
                 /\ spread' = Some(d.spread)
                 /\ price_changes' = Some(d.price_changes)
                 /\ spread_change' = Some(d.spread_change)
                 /\ UNCHANGED <<it, book, previous_books, previous_spreads,
                                since_alert>>

\* get_spread answers, and check_market runs on: it raises, or stores the new
\* state without an alert, or calls send_alert, which awaits the Telegram send.
GetSpread ==
    /\ pc = "spread"
    /\ \E text \in PollSpreads : Checked(Diff(text))

\* Mutant of SendAlert: send_alert lets the exception of the Telegram send
\* through, to `except Exception` of monitor_markets.
SendAlertPropagates ==
    /\ pc = "alert"
    /\ \E outcome \in {"ok", "error"} :
         /\ event' = [op |-> "send_alert", condition_id |-> Current.condition_id,
                      token_id |-> TokenId, outcome |-> outcome,
                      sides |-> DOMAIN price_changes[1],
                      spread_line |-> (spread_change[1] # None
                                        /\ spread_change[1][1].num # 0),
                      book |-> book, spread |-> spread]
         /\ IF outcome = "ok"
            THEN /\ Store(book[1], spread[1])
                 /\ Record(book[1], spread[1], TRUE)
                 /\ UNCHANGED <<discovery, checked, failed, failed_prev>>
            ELSE /\ pc' = "error_sleep"
                 /\ NoLocals
                 /\ failed' = Some(Current.condition_id)
                 /\ UNCHANGED <<discovery, it, previous_books, previous_spreads,
                                checked, failed_prev, since_alert>>

\* send_alert: the Telegram send succeeds or raises; send_alert catches the
\* exception and returns, and check_market stores the new state.
SendAlert ==
    /\ pc = "alert"
    /\ \E outcome \in {"ok", "error"} :
         event' = [op |-> "send_alert", condition_id |-> Current.condition_id,
                   token_id |-> TokenId, outcome |-> outcome,
                   sides |-> DOMAIN price_changes[1],
                   spread_line |-> (spread_change[1] # None /\ spread_change[1][1].num # 0),
                   book |-> book, spread |-> spread]
    /\ Store(book[1], spread[1])
    /\ Record(book[1], spread[1], TRUE)
    /\ UNCHANGED <<discovery, checked, failed, failed_prev>>

\* The for loop is over: asyncio.sleep(60) in the try block.
EndPass ==
    /\ pc = "loop"
    /\ it > Len(markets)
    /\ pc' = "sleep"
    /\ event' = [op |-> "end_pass"]
    /\ UNCHANGED <<discovery, it, locals, previous_books, previous_spreads, history>>

\* Mutant of Wake: initialize_markets is awaited inside the while loop.
WakeRediscovers ==
    /\ pc \in {"sleep", "error_sleep"}
    /\ pc' = "discover"
    /\ it' = 1
    /\ checked' = {}
    /\ failed_prev' = failed
    /\ failed' = None
    /\ event' = [op |-> "wake", after |-> pc]
    /\ UNCHANGED <<discovery, locals, previous_books, previous_spreads, since_alert>>

\* asyncio.sleep(60) returns, in the try block or in the handler, and the
\* while loop starts the next pass.
Wake ==
    /\ pc \in {"sleep", "error_sleep"}
    /\ pc' = "loop"
    /\ it' = 1
    /\ checked' = {}
    /\ failed_prev' = failed
    /\ failed' = None
    /\ event' = [op |-> "wake", after |-> pc]
    /\ UNCHANGED <<discovery, locals, previous_books, previous_spreads, since_alert>>

Next ==
    \/ ListMarkets
    \/ ListMarketsFails
    \/ ListMarketsUnsigned
    \/ StartMonitoring
    \/ SkipMarket
    \/ EnterCheck
    \/ MissingToken
    \/ GetOrderBook
    \/ GetOrderBookFails
    \/ GetOrderBookUnsigned
    \/ GetSpreadFails
    \/ GetSpreadUnsigned
    \/ GetSpread
    \/ SendAlert
    \/ EndPass
    \/ Wake

Spec == Init /\ [][Next]_vars

\* initialize_markets on its own.
DiscoveryNext ==
    \/ ListMarkets
    \/ ListMarketsFails
    \/ ListMarketsUnsigned

DiscoverySpec == Init /\ [][DiscoveryNext]_vars

\* ------------------------------------------------- the polling on its own
\* monitor_markets from the return of initialize_markets, with the history
\* of the polled token kept.  The registry holds the first market, open,
\* and a second, active market that is never fetched: closed, or else
\* without tokens.

PollRegistries ==
    {<<[condition_id |-> 1, active |-> TRUE, closed |-> FALSE, tokens |-> Tokens(1)], m>> :
        m \in {x \in MarketData :
                  x.condition_id = 2 /\ x.active /\ (x.closed <=> x.tokens # <<>>)}}

PollInit ==
    /\ pc = "loop"
    /\ next_cursor = ""
    /\ requested = <<>>
    /\ served = <<>>
    /\ seen = <<>>
    /\ markets \in PollRegistries
    /\ it = 1
    /\ book = None
    /\ spread = None
    /\ price_changes = None
    /\ spread_change = None
    /\ previous_books = <<>>
    /\ previous_spreads = <<>>
    /\ event = [op |-> "start"]
    /\ checked = {}
    /\ failed = None
    /\ failed_prev = None
    /\ since_alert = Some(<<>>)

PollNext ==
    \/ SkipMarket
    \/ EnterCheck
    \/ MissingToken
    \/ GetOrderBook
    \/ GetOrderBookFails
    \/ GetOrderBookUnsigned
    \/ GetSpreadFails
    \/ GetSpreadUnsigned
    \/ GetSpread
    \/ SendAlert
    \/ EndPass
    \/ Wake

PollSpec == PollInit /\ [][PollNext]_vars

\* ------------------------------------------------- the detector on its own
\* calculate_price_changes and calculate_spread_change called on drawn
\* inputs: the cache of the first market's token holds `previous`, the locals
\* of check_market hold `current`.

\* Prices as <<coef, places>>, written by the venue as FormatDecimal does:
\* 0, 85, 100, 114.99, 115.0, 116 and 0.00, 0.20, 0.23, 50, 52.
DetectBidPrices == {<<0, 0>>, <<85, 0>>, <<100, 0>>, <<11499, 2>>, <<1150, 1>>, <<116, 0>>}

DetectAskPrices == {<<0, 2>>, <<20, 2>>, <<23, 2>>, <<50, 0>>, <<52, 0>>}

DetectSides(prices) ==
    {<<>>} \cup {Side(FormatDecimal(g[1], g[2]), <<"1">>, k) : g \in prices, k \in 0..MaxExtra}

DetectBooks == [bids : DetectSides(DetectBidPrices), asks : DetectSides(DetectAskPrices)]

\* Spreads: 0, 0.0, 0.4, 0.5, 0.6, 1.0, 1.5, 0.5001, 1.0000 and -1.0.
DetectSpreads ==
    {[sign |-> 1, coef |-> g[1], places |-> g[2]] :
        g \in {<<0, 0>>, <<0, 1>>, <<4, 1>>, <<5, 1>>, <<6, 1>>, <<10, 1>>, <<15, 1>>,
               <<5001, 4>>, <<10000, 4>>}}
    \cup {[sign |-> -1, coef |-> 10, places |-> 1]}

DetectMarket == [condition_id |-> 1, active |-> TRUE, closed |-> FALSE, tokens |-> Tokens(1)]

DetectorInit ==
    /\ pc = "detect"
    /\ next_cursor = ""
    /\ requested = <<>>
    /\ served = <<>>
    /\ seen = <<>>
    /\ markets = <<DetectMarket>>
    /\ it = 1
    /\ price_changes = None
    /\ spread_change = None
    /\ event = [op |-> "construct"]
    /\ checked = {}
    /\ failed = None
    /\ failed_prev = None
    /\ since_alert = None
    /\ \/ /\ previous_books \in {<<>>} \cup {Put(<<>>, TokenIds(1)[1], b) :
                                               b \in DetectBooks \cup {<<>>}}
          /\ book \in {Some(b) : b \in DetectBooks}
          /\ previous_spreads = <<>>
          /\ spread = Some(DecimalZero)
       \/ /\ previous_spreads \in {<<>>} \cup {Put(<<>>, TokenIds(1)[1], sp) :
                                                 sp \in DetectSpreads}
          /\ spread \in {Some(sp) : sp \in DetectSpreads}
          /\ previous_books = <<>>
          /\ book = Some([bids |-> <<>>, asks |-> <<>>])

\* The value a local holds after `local = <result>`; a raise leaves it unset.
Assigned(local, result) == IF result.exc = "none" THEN Some(result.val) ELSE local

\* Mutant of CallCalculatePriceChanges: the call keeps its second argument
\* as the baseline of the next call.
CallCalculatePriceChangesCaching ==
    /\ pc = "detect"
    /\ event' = [op |-> "calculate_price_changes",
                 result |-> calculate_price_changes(Get(previous_books, TokenId), book[1]),
                 again |-> (price_changes # None)]
    /\ price_changes' = Assigned(price_changes, event'.result)
    /\ previous_books' = Put(previous_books, TokenId, book[1])
    /\ UNCHANGED <<pc, discovery, it, book, spread, spread_change,
                   previous_spreads, history>>

\* `again` tells a call that follows an earlier one that returned.
CallCalculatePriceChanges ==
    /\ pc = "detect"
    /\ event' = [op |-> "calculate_price_changes",
                 result |-> calculate_price_changes(Get(previous_books, TokenId), book[1]),
                 again |-> (price_changes # None)]
    /\ price_changes' = Assigned(price_changes, event'.result)
    /\ UNCHANGED <<pc, discovery, it, book, spread, spread_change, previous_books,
                   previous_spreads, history>>

CallCalculateSpreadChange ==
    /\ pc = "detect"
    /\ event' = [op |-> "calculate_spread_change",
                 result |-> calculate_spread_change(Get(previous_spreads, TokenId),
                                                    spread[1]),
                 again |-> (spread_change # None)]
    /\ spread_change' = Assigned(spread_change, event'.result)
    /\ UNCHANGED <<pc, discovery, it, book, spread, price_changes, previous_books,
                   previous_spreads, history>>

DetectorNext ==
    \/ CallCalculatePriceChanges
    \/ CallCalculateSpreadChange

DetectorSpec == DetectorInit /\ [][DetectorNext]_vars

\* ------------------------------------------------------------- the claims

\* The <<coef, places>> the venue wrote as `text`, and a side's best price
\* (<<0, 0>> for an empty side), read back without Decimal.
Written(text) ==
    CHOOSE g \in DetectBidPrices \cup DetectAskPrices : FormatDecimal(g[1], g[2]) = text

BestWritten(side_) == IF side_ = <<>> THEN <<0, 0>> ELSE Written(side_[1].price)

\* g in hundredths, a Decimal in ten-thousandths.
Hundredths(g) == g[1] * Pow10(2 - g[2])

TenThousandths(x) == x.sign * x.coef * Pow10(4 - x.places)

\* v is the number (c - p) / p * 100, for integers p # 0 and c.
IsPercentChange(v, p, c) ==
    /\ v.den > 0
    /\ v.den * (p \div v.den) = p
    /\ v.num * (p \div v.den) = (c - p) * 100

DetectToken == TokenIds(1)[1]

PriceCall == pc = "detect" /\ event.op = "calculate_price_changes"

SpreadCall == pc = "detect" /\ event.op = "calculate_spread_change"

\* The previous book is a book: not None and not {}.
HasPreviousBook == DetectToken \in DOMAIN previous_books /\ previous_books[DetectToken] # <<>>

PrevBest(side) == Hundredths(BestWritten(previous_books[DetectToken][side]))

CurrBest(side) == Hundredths(BestWritten(book[1][side]))

\* C1: for every previous/current pair of order books and each side whose
\* previous best price is not zero, calculate_price_changes reports the side
\* exactly when abs((currBest - prevBest) / prevBest * 100) >= 15, and the
\* value reported is that signed percentage (so exactly 15% is reported,
\* 14.99% is not).
C1_PriceChangeThreshold ==
    (PriceCall /\ HasPreviousBook) =>
        /\ event.result.exc = "none"
        /\ \A side \in {"bids", "asks"} :
             PrevBest(side) # 0 =>
                /\ side \in DOMAIN event.result.val
                     <=> Abs(CurrBest(side) - PrevBest(side)) * 100 >= 15 * PrevBest(side)
                /\ side \in DOMAIN event.result.val
                     => IsPercentChange(event.result.val[side], PrevBest(side),
                                        CurrBest(side))

\* Best bid 100 -> 116 is reported as +16, best ask 50 -> 52 is not reported.
C1_Witness ==
    /\ PriceCall
    /\ HasPreviousBook
    /\ PrevBest("bids") = 10000 /\ CurrBest("bids") = 11600
    /\ PrevBest("asks") = 5000 /\ CurrBest("asks") = 5200
    /\ event.result = Ok([side \in {"bids"} |-> [num |-> 16, den |-> 1]])

HasPreviousSpread ==
    DetectToken \in DOMAIN previous_spreads /\ previous_spreads[DetectToken].coef # 0

PrevSpread == TenThousandths(previous_spreads[DetectToken])

CurrSpread == TenThousandths(spread[1])

\* C2: for every previous/current pair of spreads with a previous spread
\* that is present and not zero, calculate_spread_change returns the signed
\* percentage (current - previous) / previous * 100 exactly when its absolute
\* value is >= 50, and None otherwise (so exactly 50% is returned, 49.99% is
\* not).
C2_SpreadChangeThreshold ==
    (SpreadCall /\ HasPreviousSpread) =>
        /\ event.result.exc = "none"
        /\ event.result.val # None
             <=> Abs(CurrSpread - PrevSpread) * 100 >= 50 * Abs(PrevSpread)
        /\ event.result.val # None
             => IsPercentChange(event.result.val[1], PrevSpread, CurrSpread)

\* Spread 1.0 -> 0.4 returns -60.
C2_Witness ==
    /\ SpreadCall
    /\ HasPreviousSpread
    /\ PrevSpread = 10000 /\ CurrSpread = 4000
    /\ event.result = Ok(Some([num |-> -60, den |-> 1]))

\* C3: without a baseline that is not zero nothing is reported and nothing
\* is raised: calculate_price_changes returns {} when the previous book is
\* absent, and leaves out every side whose previous side is empty or has a
\* best price of 0, whatever the current order book; calculate_spread_change
\* returns None when the previous spread is absent or 0.
C3_NoBaselineNoChange ==
    /\ PriceCall =>
         /\ event.result.exc = "none"
         /\ ~HasPreviousBook => event.result.val = <<>>
         /\ HasPreviousBook =>
              \A side \in {"bids", "asks"} :
                 PrevBest(side) = 0 => side \notin DOMAIN event.result.val
    /\ SpreadCall =>
         /\ event.result.exc = "none"
         /\ ~HasPreviousSpread => event.result.val = None

\* The previous bids are empty and the previous best ask is 0.00; the current
\* book quotes 116 and 52: nothing is reported.
C3_Witness ==
    /\ PriceCall
    /\ HasPreviousBook
    /\ previous_books[DetectToken].bids = <<>>
    /\ previous_books[DetectToken].asks # <<>> /\ PrevBest("asks") = 0
    /\ CurrBest("bids") = 11600 /\ CurrBest("asks") = 5200
    /\ event.result = Ok(<<>>)

\* C4: pagination terminates.  initialize_markets first requests the empty
\* cursor, then each cursor the venue supplied; it goes on while no page
\* carried "LTE=" and returns with the first page that does, so that it has
\* made exactly as many requests as pages up to and including that one; when
\* it returns self.markets holds one market for every condition_id received,
\* the one received last.
C4_PaginationTerminates ==
    /\ pc \in {"discover", "initialized"} =>
         /\ \A k \in 1..Len(requested) :
              requested[k] = IF k = 1 THEN "" ELSE served[k - 1]
         /\ \A k \in 1..Len(served) :
              served[k] = "LTE=" <=> (pc = "initialized" /\ k = Len(served))
         /\ Len(requested) = Len(served)
         /\ next_cursor = IF served = <<>> THEN "" ELSE served[Len(served)]
    /\ pc = "initialized" =>
         /\ served # <<>>
         /\ {markets[i].condition_id : i \in 1..Len(markets)} = DOMAIN seen
         /\ \A i \in 1..Len(markets) :
              /\ markets[i] = seen[markets[i].condition_id]
              /\ \A j \in 1..Len(markets) :
                   markets[i].condition_id = markets[j].condition_id => i = j

\* Two pages were fetched, the second carried the sentinel, and a market of
\* the first page was replaced by one of the second under the same id.
C4_Witness ==
    /\ pc = "initialized"
    /\ requested = <<"", "MTAw">>
    /\ served = <<"MTAw", "LTE=">>
    /\ Len(markets) = 1
    /\ markets[1].active /\ ~markets[1].closed
    /\ event.op = "get_markets" /\ event.replaced

\* A market with active = true and closed = false, and the place of a
\* condition_id in the registry.
IsOpen(market) == market.active = TRUE /\ market.closed = FALSE

Registered(c) == {i \in 1..Len(markets) : markets[i].condition_id = c}

\* A fetched payload that is an order book.
IsOrderBook(b) == {"bids", "asks"} \subseteq DOMAIN b

\* The markets whose check was begun in the current pass.
Attempted == checked \cup {failed[i] : i \in 1..Len(failed)}

PassOver == pc \in {"sleep", "error_sleep"}

\* C5: a network failure on one market during a pass does not prevent the
\* other markets from being checked in the same pass: when the pass is over,
\* every other active, open market (that has a token) has been fetched and
\* diffed in it.
C5_OtherMarketsStillChecked ==
    (/\ pc = "error_sleep"
     /\ event.op \in {"get_order_book", "get_spread"}
     /\ event.outcome = "ClientError") =>
        \A i \in 1..Len(markets) :
            (/\ IsOpen(markets[i])
             /\ markets[i].tokens # <<>>
             /\ markets[i].condition_id # event.condition_id)
            => markets[i].condition_id \in checked

\* C6: once polling has started no error raised inside a pass terminates
\* the monitor: it is caught, the monitor sleeps, and the next pass starts
\* again from the first market, so that the market that failed is polled
\* again in that next pass.
C6_FailedMarketPolledNextPass ==
    /\ pc = "crashed" => event.op = "get_markets"
    /\ (event.op = "wake") => (pc = "loop" /\ it = 1)
    /\ (PassOver /\ failed_prev # None) => failed_prev[1] \in Attempted

\* C7: after every check of a token in which the order book and the spread
\* were both fetched successfully, previous_books and previous_spreads hold
\* the fetched book and spread for that token, alert or no alert.
C7_FetchedStateStored ==
    (/\ event.op \in {"get_spread", "send_alert", "calculate_price_changes",
                      "calculate_spread_change"}
     /\ event.book # None /\ IsOrderBook(event.book[1])
     /\ event.spread # None
     /\ pc # "alert") =>
        \E i \in Registered(event.condition_id) :
            /\ Get(previous_books, markets[i].tokens[1].token_id) = event.book
            /\ Get(previous_spreads, markets[i].tokens[1].token_id) = event.spread

\* C8: a failed Telegram send is isolated: the token's previous_books and
\* previous_spreads entries are overwritten with the fetched book and spread,
\* the for loop goes on to the next market of the pass, and the failure does
\* not reach the handler of the pass.
C8_AlertFailureIsolated ==
    (event.op = "send_alert" /\ event.outcome = "error") =>
        /\ pc = "loop"
        /\ failed = None
        /\ it - 1 \in Registered(event.condition_id)
        /\ Get(previous_books, event.token_id) = event.book
        /\ Get(previous_spreads, event.token_id) = event.spread

\* The send failed for the first market and the loop stands at a second
\* market that is to be polled.
C8_Witness ==
    /\ event.op = "send_alert" /\ event.outcome = "error"
    /\ it = 2 /\ Len(markets) = 2
    /\ IsOpen(markets[2]) /\ markets[2].tokens # <<>>

Fetches ==
    {"check_market", "get_order_book", "get_spread", "send_alert",
     "calculate_price_changes", "calculate_spread_change"}

\* C9: a market with closed = true or active = false is never polled: every
\* fetch, alert and cache entry is for a market of the registry with
\* active = true and closed = false.
C9_OnlyOpenMarketsPolled ==
    /\ pc \in {"book", "spread", "alert"} => IsOpen(markets[it])
    /\ event.op \in Fetches =>
         \E i \in Registered(event.condition_id) : IsOpen(markets[i])
    /\ \A t \in DOMAIN previous_books \cup DOMAIN previous_spreads :
         \E i \in 1..Len(markets) :
            /\ IsOpen(markets[i])
            /\ markets[i].tokens # <<>>
            /\ markets[i].tokens[1].token_id = t

\* A market that is active but closed has just been passed over, in a pass
\* that polled the other market.
C9_Witness ==
    /\ event.op = "skip"
    /\ \E i \in Registered(event.condition_id) : markets[i].active /\ markets[i].closed
    /\ checked # {}
    /\ previous_books # <<>>

\* C10: every failure of a client call made by the monitor, get_markets
\* during discovery included, is recoverable: it is logged and the monitor
\* sleeps and goes on; the process does not end.
C10_ClientFailuresRecoverable ==
    (/\ event.op \in {"get_markets", "get_order_book", "get_spread"}
     /\ event.outcome \notin {"ok", "SigningError"}) =>
        pc = "error_sleep"

\* C11: a signing failure is fatal: whenever _get_auth_headers fails, for
\* the listing request at start-up or for a request of a polling pass, the
\* process ends; it is not logged and slept over.
C11_SigningFailureFatal ==
    (/\ event.op \in {"get_markets", "get_order_book", "get_spread"}
     /\ event.outcome = "SigningError") =>
        pc = "crashed"

Cents(text) == CHOOSE c \in 0..99 : FormatDecimal(c, 2) = text

BestCents(side_) == IF side_ = <<>> THEN 0 ELSE Cents(side_[1].price)

\* A best price moved by 15% or more, a spread by 50% or more.
PriceMoved(p, c) == p # 0 /\ Abs(c - p) * 100 >= 15 * p

SpreadMoved(p, c) == p # 0 /\ Abs(c - p) * 100 >= 50 * Abs(p)

\* From the state `seen` to the fetched book b and spread sp some best
\* price or the spread crossed its threshold.
Moved(seen_, b, sp) ==
    \/ \E side \in {"bids", "asks"} :
          PriceMoved(BestCents(seen_.book[side]), BestCents(b[side]))
    \/ SpreadMoved(TenThousandths(seen_.spread), TenThousandths(sp))

\* A step in which check_market, both fetches done, computes the two changes
\* and decides on the alert.
Decides == pc = "spread" /\ event'.op = "get_spread" /\ event'.outcome = "ok"

\* C13: detection is edge-triggered on the last observed state.  A check
\* whose two fetches succeeded sends an alert exactly when a best price moved
\* by 15% or more, or the spread by 50% or more, from the state fetched by
\* the last completed check of the token to the state fetched now; the state
\* at the last alert plays no part.  So a check that fetches the state the
\* last one fetched sends no alert, and no run of steps below the thresholds
\* sends one.
C13_EdgeTriggered ==
    [][Decides =>
         /\ TokenId \notin DOMAIN since_alert[1] => ~event'.alert
         /\ TokenId \in DOMAIN since_alert[1] =>
              /\ event'.alert <=>
                    Moved(since_alert[1][TokenId].last, book[1], event'.spread[1])
              /\ (/\ book[1] = since_alert[1][TokenId].last.book
                  /\ event'.spread[1] = since_alert[1][TokenId].last.spread)
                 => ~event'.alert]_vars

\* The token's last alert was sent at a best bid of 0.20; two checks later
\* the best bid is 0.24, 20% higher, reached in steps of 10% and 9.1%, and
\* the check that fetched it has sent no alert.
C13_Witness ==
    /\ event.op = "get_spread" /\ event.outcome = "ok" /\ ~event.alert
    /\ event.token_id \in DOMAIN since_alert[1]
    /\ since_alert[1][event.token_id].alerted
    /\ since_alert[1][event.token_id].polls = 2
    /\ BestCents(since_alert[1][event.token_id].book.bids) = 20
    /\ BestCents(event.book[1].bids) = 24
    /\ previous_books[event.token_id] = event.book[1]

\* A step of a check whose order-book fetch or spread fetch has failed: the
\* call raised, or /book was answered by a payload that is no order book.
FetchFailed ==
    \/ /\ pc \in {"book", "spread"}
       /\ pc' = "error_sleep"
       /\ event'.op \in {"get_order_book", "get_spread"}
    \/ /\ pc = "spread"
       /\ ~IsOrderBook(book[1])

\* C14: a check whose order-book fetch or spread fetch fails changes
\* neither previous_books nor previous_spreads (a book that was fetched is
\* not stored when the spread fetch fails) and sends no alert, so that the
\* token is next diffed against the state it had cached.
C14_FailedFetchLeavesCache ==
    [][FetchFailed =>
         /\ UNCHANGED <<previous_books, previous_spreads>>
         /\ pc' # "alert"]_vars

\* The two results of a check whose fetches gave book[1] and the spread sp.
PriceResult == calculate_price_changes(Get(previous_books, TokenId), book[1])

SpreadResult(sp) == calculate_spread_change(Get(previous_spreads, TokenId), sp)

CacheHolds(books, spreads, token_id, b, sp) ==
    /\ Get(books, token_id) = b
    /\ Get(spreads, token_id) = sp

\* C15: in every check in which both fetches succeed and the two results
\* are computed, send_alert is called exactly once if the price-change
\* result is not empty or a spread change is present, and not at all if
\* neither is; the alert is sent before previous_books and previous_spreads
\* are overwritten, which happens right after it; and a market is diffed,
\* and so alerted on, at most once in a pass.
C15_AlertOncePerCheck ==
    [][/\ Decides =>
            /\ (pc' = "alert") <=>
                  (PriceResult.val # <<>> \/ SpreadResult(event'.spread[1]).val # None)
            /\ pc' # "alert" =>
                  /\ pc' = "loop"
                  /\ CacheHolds(previous_books', previous_spreads', TokenId, book,
                                event'.spread)
            /\ Current.condition_id \notin checked
       /\ pc' = "alert" =>
            /\ Decides
            /\ UNCHANGED <<previous_books, previous_spreads, it, book>>
            /\ price_changes' = Some(PriceResult.val)
            /\ spread_change' = Some(SpreadResult(spread'[1]).val)
       /\ pc = "alert" =>
            /\ event'.op = "send_alert"
            /\ pc' = "loop" /\ it' = it + 1
            /\ CacheHolds(previous_books', previous_spreads', TokenId, book, spread)
       /\ event'.op = "send_alert" => pc = "alert"]_vars

\* The second market of the pass has been alerted on for its spread alone,
\* after the first market was checked, and its cache entry now holds the
\* fetched state.
C15_Witness ==
    /\ event.op = "send_alert" /\ event.outcome = "ok"
    /\ event.sides = {} /\ event.spread_line
    /\ Len(markets) = 2 /\ event.condition_id = markets[2].condition_id
    /\ checked = {markets[1].condition_id, markets[2].condition_id}
    /\ CacheHolds(previous_books, previous_spreads, event.token_id, event.book,
                  event.spread)

Discovering == pc \in {"discover", "initialized"}

Polling == pc \in {"loop", "book", "spread", "alert", "sleep", "error_sleep"}

\* C16: discovery runs once and strictly before polling.  Until
\* initialize_markets has returned, on the page that carried "LTE=", the
\* monitor only lists markets: it fetches no order book and no spread, sends
\* no alert and caches nothing.  Once it polls it never calls get_markets
\* again and self.markets never changes.
C16_DiscoveryOnceBeforePolling ==
    [][/\ Discovering =>
            /\ event'.op \in {"get_markets", "start"}
            /\ previous_books' = <<>> /\ previous_spreads' = <<>>
            /\ Polling' =>
                  /\ pc = "initialized" /\ event'.op = "start"
                  /\ served # <<>> /\ served[Len(served)] = "LTE="
                  /\ next_cursor = "LTE="
       /\ Polling =>
            /\ Polling'
            /\ event'.op \notin {"get_markets", "start"}
            /\ markets' = markets
            /\ requested' = requested]_vars

\* The second pass starts on the registry of two markets that the first
\* pass polled.
C16_Witness ==
    /\ event.op = "wake" /\ event.after = "sleep"
    /\ Len(markets) = 2
    /\ \A i \in 1..2 :
          /\ markets[i].tokens # <<>>
          /\ markets[i].tokens[1].token_id \in DOMAIN previous_books
    /\ pc = "loop" /\ it = 1

InPass == pc \in {"loop", "book", "spread", "alert"}

\* A step that starts a pass: the for loop is entered at the first market.
PassStarts == pc' = "loop" /\ it' = 1 /\ ~(pc = "loop" /\ it = 1)

\* C17: passes are separated by the fixed delay.  A pass that has gone over
\* all markets and a pass aborted by an error both end in one
\* asyncio.sleep(60); the only step from a sleep is the start of the next
\* pass, so no pass sleeps twice; and once polling has begun a pass starts,
\* and a fetch is made, only after that sleep has returned: no two passes run
\* back to back.
C17_OneSleepBetweenPasses ==
    [][/\ (InPass /\ ~InPass') =>
            /\ pc' = IF pc = "loop" /\ it > Len(markets) THEN "sleep" ELSE "error_sleep"
            /\ pc' = "sleep" => (event'.op = "end_pass" /\ failed' = None)
            /\ pc' = "error_sleep" => failed' # None
       /\ (pc = "loop" /\ it > Len(markets)) => pc' = "sleep"
       /\ PassOver =>
            /\ PassStarts
            /\ event'.op = "wake" /\ event'.after = pc
       /\ (PassStarts /\ Polling) => PassOver
       /\ (InPass /\ InPass') => (it' = it \/ it' = it + 1)
       /\ event'.op \in Fetches => (InPass /\ InPass')
            \/ (pc \in {"book", "spread"} /\ pc' = "error_sleep")]_vars

\* The first fetch of the pass that follows an aborted pass is under way;
\* the aborted pass had checked the first market before the second failed.
C17_Witness ==
    /\ pc = "book" /\ it = 1
    /\ event.op = "check_market"
    /\ checked = {}
    /\ Len(markets) = 2
    /\ failed_prev # None /\ failed_prev[1] = markets[2].condition_id
    /\ DOMAIN previous_books = {markets[1].tokens[1].token_id}

\* The cached book of the token being checked has a best price that is not
\* zero on `side`, and the fetched book has nothing on that side.
SideEmptied(side) ==
    /\ TokenId \in DOMAIN previous_books
    /\ IsOrderBook(previous_books[TokenId])
    /\ BestCents(previous_books[TokenId][side]) # 0
    /\ IsOrderBook(book[1])
    /\ book[1][side] = <<>>

\* C18: an empty current side is a best price of zero.  When the previous
\* book's side has a best price that is not zero and the same side of the
\* fetched book is empty, calculate_price_changes reports the side with
\* exactly -100, so that the check, its spread fetched, sends an alert.
C18_EmptySideIsMinusHundred ==
    [][\A side \in {"bids", "asks"} :
          (/\ pc = "spread"
           /\ SideEmptied(side)
           /\ ~(pc' = "error_sleep" /\ event'.op = "get_spread")) =>
             /\ PriceResult.exc = "none"
             /\ side \in DOMAIN PriceResult.val
             /\ PriceResult.val[side] = [num |-> -100, den |-> 1]
             /\ pc' = "alert"
             /\ price_changes' = Some(PriceResult.val)]_vars

\* The best bid was 0.20, the fetched book has no bids, and send_alert has
\* been called with bids at -100.
C18_Witness ==
    /\ pc = "alert"
    /\ BestCents(previous_books[TokenId].bids) = 20
    /\ book[1].bids = <<>>
    /\ price_changes[1] = [side \in {"bids"} |-> [num |-> -100, den |-> 1]]

\* C19: the first successful poll of a token never sends an alert.  Both
\* caches are empty until polling starts; an entry appears only in the step
\* that ends a check of that token whose two fetches succeeded, and it holds
\* what that check fetched; and a check of a token without an entry, whatever
\* it fetches, ends without an alert.
C19_FirstPollNeverAlerts ==
    [][/\ Discovering => (previous_books = <<>> /\ previous_spreads = <<>>)
       /\ (Decides /\ TokenId \notin DOMAIN previous_books) =>
            /\ ~event'.alert
            /\ pc' = "loop"
       /\ pc' = "alert" =>
            (TokenId \in DOMAIN previous_books /\ TokenId \in DOMAIN previous_spreads)
       /\ \A t \in (DOMAIN previous_books' \cup DOMAIN previous_spreads')
                      \ (DOMAIN previous_books \cap DOMAIN previous_spreads) :
            /\ Decides
            /\ t = TokenId
            /\ CacheHolds(previous_books', previous_spreads', t, book, event'.spread)]_vars

\* The first poll of the second market has fetched a book with quotes and a
\* spread of 0.06, has ended without an alert, and has made the token's
\* cache entries.
C19_Witness ==
    /\ event.op = "get_spread" /\ event.outcome = "ok"
    /\ event.first /\ ~event.alert
    /\ Len(markets) = 2 /\ event.condition_id = markets[2].condition_id
    /\ IsOrderBook(event.book[1]) /\ event.book[1].bids # <<>>
    /\ TenThousandths(event.spread[1]) = 600
    /\ CacheHolds(previous_books, previous_spreads, event.token_id, event.book,
                  event.spread)

\* The registry markets with active = true and closed = false.
OpenMarkets == {i \in 1..Len(markets) : IsOpen(markets[i])}

\* The two caches have the same keys, each the primary token of an open
\* market of the registry, and no more keys than there are such markets.
CacheKeysOk ==
    /\ DOMAIN previous_books = DOMAIN previous_spreads
    /\ \A t \in DOMAIN previous_books :
          \E i \in OpenMarkets :
             markets[i].tokens # <<>> /\ markets[i].tokens[1].token_id = t
    /\ Cardinality(DOMAIN previous_books) <= Cardinality(OpenMarkets)

\* C20: wherever the monitor stands between checks or is suspended (at a
\* fetch, at the alert send, in the sleep), previous_books and
\* previous_spreads have the same key set, every key is tokens[0].token_id of
\* a registry market with active = true and closed = false, and the caches
\* hold no more keys than there are such markets; no step removes a key.
C20_CacheKeys ==
    [][/\ CacheKeysOk
       /\ CacheKeysOk'
       /\ DOMAIN previous_books \subseteq DOMAIN previous_books'
       /\ DOMAIN previous_spreads \subseteq DOMAIN previous_spreads']_vars

\* Both markets are open and both tokens are cached; the monitor is
\* suspended at the fetch of a later pass whose first market is being
\* checked again.
C20_Witness ==
    /\ pc = "spread" /\ it = 1
    /\ Len(markets) = 2 /\ OpenMarkets = {1, 2}
    /\ markets[1].tokens # <<>> /\ markets[2].tokens # <<>>
    /\ DOMAIN previous_books = {markets[1].tokens[1].token_id, markets[2].tokens[1].token_id}
    /\ DOMAIN previous_spreads = DOMAIN previous_books
    /\ Cardinality(DOMAIN previous_books) = 2

====
